---- MODULE Spec2Model ----
(***************************************************************************)
(* Model of scripts/whisper_transcribe.py: the command-line entry point    *)
(* main() and transcribe_audio(), with the Whisper engine as an opaque     *)
(* collaborator that either returns or raises.                             *)
(*                                                                         *)
(* A Python str is a sequence of pieces; a piece is one character, or a    *)
(* literal of the program kept whole ("Audio file not found: ").  The      *)
(* character written "U+00E9" stands for a non-ASCII character.            *)
(* A Python dict built by the program is a sequence of <<key, value>>      *)
(* pairs in insertion order, its values tagged with their JSON type.       *)
(* A dict received from the engine is a function on the keys it has.       *)
(* An optional value (None or a value) is <<>> or <<value>>.               *)
(***************************************************************************)
EXTENDS Integers, Sequences, FiniteSets, TLC

VARIABLES
    argv,            \* sys.argv, argv[1] being the script name
    fs,              \* the paths that exist on the filesystem
    pc,              \* position of the single thread of control
    audio_path,      \* main/transcribe_audio local
    model,           \* main/transcribe_audio local
    language,        \* main/transcribe_audio local: None or a str
    options,         \* transcribe_audio local: keyword options of transcribe
    eresult,         \* transcribe_audio local `result`: what the engine returned
    exc,             \* exception caught by the handler of transcribe_audio
    result,          \* main local: the dict transcribe_audio returned
    loadCalls,       \* selectors whisper.load_model was called with
    transcribeCalls, \* [path, options] of each model_instance.transcribe call
    stdout,          \* texts written to standard output, one per print
    printed,         \* the dict each text of stdout was serialised from
    exitCode,        \* None or the status the process exited with
    escaped          \* an exception left transcribe_audio uncaught

vars == <<argv, fs, pc, audio_path, model, language, options, eresult, exc,
          result, loadCalls, transcribeCalls, stdout, printed, exitCode, escaped>>

-----------------------------------------------------------------------------
(* Bounds of the model *)

MaxSegs == 2     \* longest segment list the engine returns
MaxTime == 1     \* largest timestamp the engine returns

-----------------------------------------------------------------------------
(* Values *)

None == <<>>
Some(x) == <<x>>

NonAscii == "U+00E9"
NonAsciiChars == {NonAscii}
Whitespace == {" ", "\n"}

JBool(b) == [t |-> "bool", v |-> b]
JStr(s)  == [t |-> "str",  v |-> s]
JNum(n)  == [t |-> "num",  v |-> n]
JList(x) == [t |-> "list", v |-> x]
JDict(d) == [t |-> "dict", v |-> d]

\* d[k] and `k in d` of a dict built by the program
Keys(d) == {d[i][1] : i \in DOMAIN d}
Val(d, k) == d[CHOOSE i \in DOMAIN d : d[i][1] = k][2]

\* d.get(k, default) of a dict received from the engine
Get(d, k, default) == IF k \in DOMAIN d THEN d[k] ELSE default

-----------------------------------------------------------------------------
(* str.strip(): leading and trailing whitespace removed *)

RECURSIVE lstrip(_)
lstrip(s) ==
    IF s /= <<>> /\ Head(s) \in Whitespace THEN lstrip(Tail(s)) ELSE s

RECURSIVE rstrip(_)
rstrip(s) ==
    IF s /= <<>> /\ s[Len(s)] \in Whitespace
    THEN rstrip(SubSeq(s, 1, Len(s) - 1))
    ELSE s

strip(s) == rstrip(lstrip(s))

-----------------------------------------------------------------------------
(* json.dumps(obj, indent=..., ensure_ascii=...): the text as a sequence   *)
(* of pieces.  indent is None or <<n>>.                                    *)

EscapeChar(c, ensure_ascii) ==
    IF c = "\n" THEN "\\n"
    ELSE IF ensure_ascii /\ c \in NonAsciiChars THEN "\\u00e9"
    ELSE c

EncodeString(s, ensure_ascii) ==
    <<"\"">> \o [i \in 1..Len(s) |-> EscapeChar(s[i], ensure_ascii)] \o <<"\"">>

NewlineIndent(indent, level) ==
    IF indent = None THEN <<>>
    ELSE <<"\n">> \o [i \in 1..(indent[1] * level) |-> " "]

ItemSeparator(indent, level) ==
    IF indent = None THEN <<",", " ">>
    ELSE <<",">> \o NewlineIndent(indent, level)

RECURSIVE Encode(_, _, _, _)
RECURSIVE EncodeList(_, _, _, _)
RECURSIVE EncodeDict(_, _, _, _)

EncodeList(xs, indent, ensure_ascii, level) ==
    IF Len(xs) = 1 THEN Encode(xs[1], indent, ensure_ascii, level)
    ELSE Encode(xs[1], indent, ensure_ascii, level)
         \o ItemSeparator(indent, level)
         \o EncodeList(Tail(xs), indent, ensure_ascii, level)

EncodeDict(ps, indent, ensure_ascii, level) ==
    LET item == EncodeString(<<ps[1][1]>>, ensure_ascii) \o <<":", " ">>
                \o Encode(ps[1][2], indent, ensure_ascii, level)
    IN  IF Len(ps) = 1 THEN item
        ELSE item \o ItemSeparator(indent, level)
             \o EncodeDict(Tail(ps), indent, ensure_ascii, level)

Encode(o, indent, ensure_ascii, level) ==
    CASE o.t = "bool" -> <<IF o.v THEN "true" ELSE "false">>
      [] o.t = "num"  -> <<ToString(o.v)>>
      [] o.t = "str"  -> EncodeString(o.v, ensure_ascii)
      [] o.t = "list" ->
            IF o.v = <<>> THEN <<"[]">>
            ELSE <<"[">> \o NewlineIndent(indent, level + 1)
                 \o EncodeList(o.v, indent, ensure_ascii, level + 1)
                 \o NewlineIndent(indent, level) \o <<"]">>
      [] o.t = "dict" ->
            IF o.v = <<>> THEN <<"{}">>
            ELSE <<"{">> \o NewlineIndent(indent, level + 1)
                 \o EncodeDict(o.v, indent, ensure_ascii, level + 1)
                 \o NewlineIndent(indent, level) \o <<"}">>

dumps(d, indent, ensure_ascii) == Encode(JDict(d), indent, ensure_ascii, 0)

-----------------------------------------------------------------------------
(* Literals of the program *)

ProgName == <<"whisper_transcribe.py">>
DefaultModel == <<"tiny">>
DefaultLanguage == <<"unknown">>
UsageMessage ==
    <<"Usage: python whisper_transcribe.py <audio_file> [model] [language]">>
NotFoundPrefix == <<"Audio file not found: ">>
FailedPrefix == <<"Transcription failed: ">>

\* the classes `except Exception` catches, among those the model raises
ExceptionClasses == {"RuntimeError", "KeyError"}

-----------------------------------------------------------------------------
(* Inputs: command lines and filesystems *)

AudioPaths == {<<"a">>, <<NonAscii>>}
ModelArgs == {<<"base">>, <<"huge">>}
LanguageArgs == {<<>>, <<"f", "r">>}
Filesystems == SUBSET {<<"a">>}

Argvs ==
    {<<ProgName>>}
    \cup {<<ProgName, p>> : p \in AudioPaths}
    \cup {<<ProgName, p, m>> : p \in AudioPaths, m \in ModelArgs}
    \cup {<<ProgName, p, m, l>> :
            p \in AudioPaths, m \in ModelArgs, l \in LanguageArgs}

-----------------------------------------------------------------------------
(* The engine: whisper.load_model and model_instance.transcribe.  Either   *)
(* call returns or raises; a returned dict or segment may lack any key.    *)

KnownModels == {<<"tiny">>, <<"base">>}

ModelNotFound(m) ==
    [type |-> "RuntimeError", msg |-> <<"Model ">> \o m \o <<" not found">>]
OutOfMemory == [type |-> "RuntimeError", msg |-> <<"out of memory">>]
AudioLoadFailed == [type |-> "RuntimeError", msg |-> <<"Failed to load audio">>]

\* None: the call returns; Some(e): it raises e
LoadOutcomes(m) ==
    IF m \in KnownModels THEN {None, Some(OutOfMemory)}
    ELSE {Some(ModelNotFound(m))}

TranscribeErrors == {AudioLoadFailed}

Times == 0..MaxTime
Optional(S) == {None} \cup {Some(x) : x \in S}

MkSegment(s, e, t) ==
    LET ks == {k \in {"start", "end", "text"} :
                 \/ k = "start" /\ s /= None
                 \/ k = "end" /\ e /= None
                 \/ k = "text" /\ t /= None}
    IN  [k \in ks |-> IF k = "start" THEN s[1]
                      ELSE IF k = "end" THEN e[1] ELSE t[1]]

SegmentTexts == {<<"\n", "b", " ">>}

\* segments with every key, over all timestamps
FullSegments ==
    {MkSegment(Some(s), Some(e), Some(t)) :
        s \in Times, e \in Times, t \in SegmentTexts}

\* a segment for every set of keys the engine may leave out
PartialSegments ==
    {MkSegment(s, e, t) :
        s \in {None, Some(MaxTime)}, e \in {None, Some(MaxTime)},
        t \in Optional(SegmentTexts)}

EngineSegments == FullSegments \cup PartialSegments

SegmentLists == UNION {[1..n -> EngineSegments] : n \in 0..MaxSegs}

MkResult(t, l, ss) ==
    LET ks == {k \in {"text", "language", "segments"} :
                 \/ k = "text" /\ t /= None
                 \/ k = "language" /\ l /= None
                 \/ k = "segments" /\ ss /= None}
    IN  [k \in ks |-> IF k = "text" THEN t[1]
                      ELSE IF k = "language" THEN l[1] ELSE ss[1]]

EngineResults ==
    {MkResult(t, l, ss) :
        t \in Optional({<<" ", "a", NonAscii, " ">>}),
        l \in Optional({<<"e", "n">>}),
        ss \in Optional(SegmentLists)}

-----------------------------------------------------------------------------
(* transcribe_audio and main: the values they compute *)

SysArgv(a, i) == a[i + 1]

\* lines 77-79
AudioPathArg(a) == SysArgv(a, 1)
\* mutant: the second argument is ignored
ModelArgIgnored(a) == DefaultModel
ModelArg(a) == IF Len(a) > 2 THEN SysArgv(a, 2) ELSE DefaultModel
LanguageArg(a) == IF Len(a) > 3 THEN Some(SysArgv(a, 3)) ELSE None

\* mutant: the existence check always passes
ExistsUnchecked(path) == TRUE

\* os.path.exists(path)
Exists(path) == path \in fs

\* mutant: `if language is not None:`
TruthyNotNone(l) == l /= None

\* `if language:` -- None and the empty string are both false
Truthy(l) == l /= None /\ l[1] /= <<>>

\* lines 38-40: the keyword options handed to transcribe
BuildOptions(l) == [k \in (IF Truthy(l) THEN {"language"} ELSE {}) |-> l[1]]

\* mutant: start and end exchanged
ConvertSegmentSwapped(segment) ==
    JDict(<< <<"start", JNum(Get(segment, "end", 0))>>,
             <<"end",   JNum(Get(segment, "start", 0))>>,
             <<"text",  JStr(strip(Get(segment, "text", <<>>)))>> >>)

\* lines 48-52: one output segment from one engine segment
ConvertSegment(segment) ==
    JDict(<< <<"start", JNum(Get(segment, "start", 0))>>,
             <<"end",   JNum(Get(segment, "end", 0))>>,
             <<"text",  JStr(strip(Get(segment, "text", <<>>)))>> >>)

\* mutant: the segments are prepended, not appended
ExtractSegmentsReversed(r) ==
    IF "segments" \in DOMAIN r
    THEN [i \in 1..Len(r["segments"]) |->
            ConvertSegment(r["segments"][Len(r["segments"]) + 1 - i])]
    ELSE <<>>

\* lines 45-52: the segments list, in the order of the engine's list
ExtractSegments(r) ==
    IF "segments" \in DOMAIN r
    THEN [i \in 1..Len(r["segments"]) |-> ConvertSegment(r["segments"][i])]
    ELSE <<>>

\* lines 29-32
NotFoundResult(path) ==
    << <<"success", JBool(FALSE)>>,
       <<"error", JStr(NotFoundPrefix \o path)>> >>

\* lines 54-60, for an engine result r that has the key text
SuccessResult(r, m) ==
    << <<"success", JBool(TRUE)>>,
       <<"text", JStr(strip(r["text"]))>>,
       <<"language", JStr(Get(r, "language", DefaultLanguage))>>,
       <<"segments", JList(ExtractSegments(r))>>,
       <<"model_used", JStr(m)>> >>

\* mutant: the failure result carries an empty text as well
FailureResultPartial(e) ==
    << <<"success", JBool(FALSE)>>,
       <<"error", JStr(FailedPrefix \o e.msg)>>,
       <<"text", JStr(<<>>)>> >>

\* lines 63-66: str(e) after the fixed prefix
FailureResult(e) ==
    << <<"success", JBool(FALSE)>>,
       <<"error", JStr(FailedPrefix \o e.msg)>> >>

\* lines 71-74
UsageResult ==
    << <<"success", JBool(FALSE)>>, <<"error", JStr(UsageMessage)>> >>

\* lines 71-74: json.dumps with its defaults
UsageText(d) == dumps(d, None, TRUE)

\* mutant: the result printed as the usage error is
ResultTextDefault(d) == dumps(d, None, TRUE)

\* line 85: json.dumps(result, indent=2, ensure_ascii=False)
ResultText(d) == dumps(d, Some(2), FALSE)

\* mutant: the status does not depend on the result
ExitStatusZero(r) == 0

\* line 88
ExitStatus(r) == IF Val(r, "success").v THEN 0 ELSE 1

\* result["text"] of a dict without that key; str(KeyError('text')) is 'text'
KeyError(k) == [type |-> "KeyError", msg |-> <<"'", k, "'">>]

\* mutant: `except RuntimeError`
CaughtRuntimeOnly(e) == e.type = "RuntimeError"

\* line 62: `except Exception`
Caught(e) == e.type \in ExceptionClasses

-----------------------------------------------------------------------------
(* The program *)

Init ==
    /\ argv \in Argvs
    /\ fs \in Filesystems
    /\ pc = "main"
    /\ audio_path = <<>>
    /\ model = <<>>
    /\ language = None
    /\ options = BuildOptions(None)
    /\ eresult = None
    /\ exc = None
    /\ result = <<>>
    /\ loadCalls = <<>>
    /\ transcribeCalls = <<>>
    /\ stdout = <<>>
    /\ printed = <<>>
    /\ exitCode = None
    /\ escaped = FALSE

\* An exception raised inside the try block of transcribe_audio: the handler
\* of line 62 takes it if it catches its class; otherwise it leaves
\* transcribe_audio and main, and the interpreter exits with status 1
\* without anything written to standard output.
Raise(e) ==
    IF Caught(e)
    THEN /\ exc' = Some(e)
         /\ pc' = "except"
         /\ UNCHANGED <<exitCode, escaped>>
    ELSE /\ exc' = exc
         /\ pc' = "done"
         /\ exitCode' = Some(1)
         /\ escaped' = TRUE

\* lines 70-74: no positional argument; the usage document is printed
UsageError ==
    /\ pc = "main"
    /\ Len(argv) < 2
    /\ stdout' = Append(stdout, UsageText(UsageResult))
    /\ printed' = Append(printed, UsageResult)
    /\ pc' = "usage_exit"
    /\ UNCHANGED <<argv, fs, audio_path, model, language, options, eresult,
                   exc, result, loadCalls, transcribeCalls, exitCode, escaped>>

\* line 75: sys.exit(1)
UsageExit ==
    /\ pc = "usage_exit"
    /\ exitCode' = Some(1)
    /\ pc' = "done"
    /\ UNCHANGED <<argv, fs, audio_path, model, language, options, eresult,
                   exc, result, loadCalls, transcribeCalls, stdout, printed,
                   escaped>>

\* lines 77-82: the arguments are read and transcribe_audio is called
ParseArgs ==
    /\ pc = "main"
    /\ ~(Len(argv) < 2)
    /\ audio_path' = AudioPathArg(argv)
    /\ model' = ModelArg(argv)
    /\ language' = LanguageArg(argv)
    /\ pc' = "exists"
    /\ UNCHANGED <<argv, fs, options, eresult, exc, result, loadCalls,
                   transcribeCalls, stdout, printed, exitCode, escaped>>

\* lines 28-32: the existence check, first thing in the try block
CheckExists ==
    /\ pc = "exists"
    /\ IF ~Exists(audio_path)
       THEN /\ result' = NotFoundResult(audio_path)
            /\ pc' = "print"
       ELSE /\ pc' = "load"
            /\ UNCHANGED result
    /\ UNCHANGED <<argv, fs, audio_path, model, language, options, eresult,
                   exc, loadCalls, transcribeCalls, stdout, printed, exitCode,
                   escaped>>

\* line 35: whisper.load_model(model) returns or raises
LoadModel ==
    /\ pc = "load"
    /\ loadCalls' = Append(loadCalls, model)
    /\ \E o \in LoadOutcomes(model) :
          IF o = None
          THEN /\ pc' = "options"
               /\ UNCHANGED <<exc, exitCode, escaped>>
          ELSE Raise(o[1])
    /\ UNCHANGED <<argv, fs, audio_path, model, language, options, eresult,
                   result, transcribeCalls, stdout, printed>>

\* lines 38-40
MakeOptions ==
    /\ pc = "options"
    /\ options' = BuildOptions(language)
    /\ pc' = "transcribe"
    /\ UNCHANGED <<argv, fs, audio_path, model, language, eresult, exc,
                   result, loadCalls, transcribeCalls, stdout, printed,
                   exitCode, escaped>>

\* line 42: model_instance.transcribe(audio_path, **options) returns or raises
Transcribe ==
    /\ pc = "transcribe"
    /\ transcribeCalls' =
          Append(transcribeCalls, [path |-> audio_path, options |-> options])
    /\ \/ \E r \in EngineResults :
             /\ eresult' = Some(r)
             /\ pc' = "reshape"
             /\ UNCHANGED <<exc, exitCode, escaped>>
       \/ \E e \in TranscribeErrors :
             /\ Raise(e)
             /\ UNCHANGED eresult
    /\ UNCHANGED <<argv, fs, audio_path, model, language, options, result,
                   loadCalls, stdout, printed>>

\* lines 44-60: the engine's result is reshaped; result["text"] raises
\* KeyError when the engine's dict has no text
Reshape ==
    /\ pc = "reshape"
    /\ IF "text" \in DOMAIN eresult[1]
       THEN /\ result' = SuccessResult(eresult[1], model)
            /\ pc' = "print"
            /\ UNCHANGED <<exc, exitCode, escaped>>
       ELSE /\ Raise(KeyError("text"))
            /\ UNCHANGED result
    /\ UNCHANGED <<argv, fs, audio_path, model, language, options, eresult,
                   loadCalls, transcribeCalls, stdout, printed>>

\* mutant: the handler prints the failure result before returning it
ExceptAlsoPrints ==
    /\ pc = "except"
    /\ result' = FailureResult(exc[1])
    /\ stdout' = Append(stdout, ResultText(FailureResult(exc[1])))
    /\ printed' = Append(printed, FailureResult(exc[1]))
    /\ pc' = "print"
    /\ UNCHANGED <<argv, fs, audio_path, model, language, options, eresult,
                   exc, loadCalls, transcribeCalls, exitCode, escaped>>

\* lines 62-66: the handler builds the failure result
Except ==
    /\ pc = "except"
    /\ result' = FailureResult(exc[1])
    /\ pc' = "print"
    /\ UNCHANGED <<argv, fs, audio_path, model, language, options, eresult,
                   exc, loadCalls, transcribeCalls, stdout, printed, exitCode,
                   escaped>>

\* line 85: the result is printed
PrintResult ==
    /\ pc = "print"
    /\ stdout' = Append(stdout, ResultText(result))
    /\ printed' = Append(printed, result)
    /\ pc' = "exit"
    /\ UNCHANGED <<argv, fs, audio_path, model, language, options, eresult,
                   exc, result, loadCalls, transcribeCalls, exitCode, escaped>>

\* line 88: sys.exit(0 if result["success"] else 1)
Exit ==
    /\ pc = "exit"
    /\ exitCode' = Some(ExitStatus(result))
    /\ pc' = "done"
    /\ UNCHANGED <<argv, fs, audio_path, model, language, options, eresult,
                   exc, result, loadCalls, transcribeCalls, stdout, printed,
                   escaped>>

Next ==
    \/ UsageError
    \/ UsageExit
    \/ ParseArgs
    \/ CheckExists
    \/ LoadModel
    \/ MakeOptions
    \/ Transcribe
    \/ Reshape
    \/ Except
    \/ PrintResult
    \/ Exit

Spec == Init /\ [][Next]_vars

-----------------------------------------------------------------------------
(* Vocabulary of the properties *)

Exited == exitCode /= None
NoArguments == Len(argv) < 2
\* transcribe_audio has returned its result to main
Returned == ~NoArguments /\ pc \in {"print", "exit", "done"} /\ ~escaped
MissingFile == ~NoArguments /\ argv[2] \notin fs
Succeeded(d) == "success" \in Keys(d) /\ Val(d, "success").v

ResultKeys == {"text", "language", "segments", "model_used"}

FailureShape(d) ==
    /\ "error" \in Keys(d)
    /\ Val(d, "error").t = "str"
    /\ Val(d, "error").v /= <<>>
    /\ Keys(d) \cap ResultKeys = {}

SuccessShape(d) ==
    /\ ResultKeys \subseteq Keys(d)
    /\ "error" \notin Keys(d)

IsFailure(d, message) ==
    /\ Len(d) = 2
    /\ Keys(d) = {"success", "error"}
    /\ Val(d, "success") = JBool(FALSE)
    /\ Val(d, "error") = JStr(message)

\* t is s without its leading and trailing whitespace
IsStripOf(t, s) ==
    /\ t = <<>> \/ (t[1] \notin Whitespace /\ t[Len(t)] \notin Whitespace)
    /\ \E i \in 0..Len(s) :
          /\ i + Len(t) <= Len(s)
          /\ SubSeq(s, i + 1, i + Len(t)) = t
          /\ \A k \in 1..Len(s) :
                (k <= i \/ k > i + Len(t)) => s[k] \in Whitespace

\* the text opens as json.dumps(..., indent=2) opens a non-empty object
TwoSpaceIndented(text) ==
    /\ Len(text) > 5
    /\ SubSeq(text, 1, 5) = <<"{", "\n", " ", " ", "\"">>
    /\ SubSeq(text, Len(text) - 1, Len(text)) = <<"\n", "}">>

OneLine(text) == \A i \in DOMAIN text : text[i] /= "\n"

Count(text, c) == Cardinality({i \in DOMAIN text : text[i] = c})

RECURSIVE NonAsciiIn(_)
NonAsciiIn(o) ==
    CASE o.t = "str" -> Count(o.v, NonAscii)
      [] o.t \in {"list", "dict"} ->
            LET RECURSIVE Sum(_)
                Sum(xs) ==
                    IF xs = <<>> THEN 0
                    ELSE NonAsciiIn(IF o.t = "dict" THEN Head(xs)[2] ELSE Head(xs))
                         + Sum(Tail(xs))
            IN  Sum(o.v)
      [] OTHER -> 0

\* every non-ASCII character of the document is in the text as itself
NonAsciiPreserved(text, d) ==
    /\ Count(text, NonAscii) = NonAsciiIn(JDict(d))
    /\ Count(text, "\\u00e9") = 0

EngineSegmentsOf(r) == Get(r, "segments", <<>>)
OutputSegments(d) == [i \in DOMAIN Val(d, "segments").v |-> Val(d, "segments").v[i].v]

WellTimed(starts, ends) ==
    /\ \A i \in DOMAIN starts : 0 <= starts[i] /\ starts[i] <= ends[i]
    /\ \A i, j \in DOMAIN starts : i < j => starts[i] <= starts[j]

OutputWellTimed(d) ==
    LET out == OutputSegments(d)
    IN  WellTimed([i \in DOMAIN out |-> Val(out[i], "start").v],
                  [i \in DOMAIN out |-> Val(out[i], "end").v])

EngineWellTimed(r) ==
    LET in == EngineSegmentsOf(r)
    IN  /\ \A i \in DOMAIN in : {"start", "end"} \subseteq DOMAIN in[i]
        /\ WellTimed([i \in DOMAIN in |-> in[i]["start"]],
                     [i \in DOMAIN in |-> in[i]["end"]])

-----------------------------------------------------------------------------
(* Properties *)

\* C1: a run that has exited has written exactly one document to standard
\* output, written before the exit status was set; no run writes more than one.
C1_ExactlyOneDocument ==
    /\ Len(stdout) <= 1
    /\ Exited => Len(stdout) = 1

C1_Witness ==
    /\ Exited
    /\ Len(stdout) = 1
    /\ eresult /= None
    /\ "text" \notin DOMAIN eresult[1]

\* C2: the exit status is 0 or 1, it is 0 exactly when the printed document
\* has success=true; no arguments, a missing file and an engine exception
\* all exit with 1, the first after printing the usage-error document.
C2_ExitCodeAgrees ==
    Exited =>
        /\ exitCode[1] \in {0, 1}
        /\ Len(printed) = 1
        /\ exitCode[1] = 0 <=> Succeeded(printed[1])
        /\ exitCode[1] = 1 <=> ~Succeeded(printed[1])
        /\ NoArguments =>
              /\ exitCode[1] = 1
              /\ IsFailure(printed[1], UsageMessage)
        /\ (MissingFile \/ exc /= None) => exitCode[1] = 1

C2_Witness == Exited /\ exitCode[1] = 0 /\ Succeeded(printed[1])

\* C3: for a path that does not exist the result is exactly success=false
\* with the error "Audio file not found: <path>", whatever the model and
\* language arguments; the engine is asked neither to load nor to transcribe,
\* and the exit status is 1.
C3_MissingFile ==
    (MissingFile /\ pc \notin {"main", "exists"}) =>
        /\ IsFailure(result, <<"Audio file not found: ">> \o argv[2])
        /\ loadCalls = <<>>
        /\ transcribeCalls = <<>>
        /\ \A i \in DOMAIN printed : printed[i] = result
        /\ Exited => exitCode[1] = 1

C3_Witness == MissingFile /\ Exited /\ Len(argv) = 4 /\ Len(printed) = 1

\* C4: every result and every printed document has one of two shapes:
\* success=false with a non-empty error string and none of text, language,
\* segments, model_used; or success=true with all four and no error.
TwoShapes(d) ==
    /\ "success" \in Keys(d)
    /\ ~Succeeded(d) => FailureShape(d)
    /\ Succeeded(d) => SuccessShape(d)

C4_TwoShapes ==
    /\ Returned => TwoShapes(result)
    /\ \A i \in DOMAIN printed : TwoShapes(printed[i])

C4_Witness ==
    /\ Len(printed) = 1
    /\ exc /= None
    /\ eresult /= None
    /\ ~Succeeded(printed[1])

\* C5 as stated: every printed document, the usage error included, is
\* serialised with two-space indentation and non-ASCII characters preserved.
C5_AllIndented ==
    \A i \in DOMAIN stdout :
        /\ TwoSpaceIndented(stdout[i])
        /\ NonAsciiPreserved(stdout[i], printed[i])

\* C5 amended: every document printed for the result of transcribe_audio is
\* serialised with two-space indentation and non-ASCII characters preserved;
\* the usage-error document is serialised on one line.
C5_ResultIndented ==
    \A i \in DOMAIN stdout :
        IF NoArguments
        THEN OneLine(stdout[i])
        ELSE /\ TwoSpaceIndented(stdout[i])
             /\ NonAsciiPreserved(stdout[i], printed[i])

C5_Witness ==
    /\ Len(stdout) = 1
    /\ Count(stdout[1], NonAscii) > 0
    /\ Succeeded(printed[1])

\* C6 as stated: transcribe is called with the option language set to the
\* third positional argument whenever one was given, whatever string it is,
\* with no language option when none was given, and with no other option.
C6_LanguagePassed ==
    \A i \in DOMAIN transcribeCalls :
        LET opts == transcribeCalls[i].options
        IN  /\ DOMAIN opts \subseteq {"language"}
            /\ Len(argv) > 3 =>
                  "language" \in DOMAIN opts /\ opts["language"] = argv[4]
            /\ Len(argv) <= 3 => DOMAIN opts = {}

\* C6 amended: transcribe is called with the option language set to the
\* third positional argument whenever a non-empty one was given, with no
\* language option when none or the empty string was given, and with no
\* other option.
C6_NonEmptyLanguagePassed ==
    \A i \in DOMAIN transcribeCalls :
        LET opts == transcribeCalls[i].options
        IN  /\ DOMAIN opts \subseteq {"language"}
            /\ (Len(argv) > 3 /\ argv[4] /= <<>>) =>
                  "language" \in DOMAIN opts /\ opts["language"] = argv[4]
            /\ (Len(argv) <= 3 \/ argv[4] = <<>>) => DOMAIN opts = {}

C6_Witness ==
    /\ Len(transcribeCalls) = 1
    /\ Len(argv) > 3
    /\ argv[4] /= <<>>
    /\ "language" \in DOMAIN transcribeCalls[1].options

\* C7: an exception raised while loading, transcribing or reshaping never
\* leaves transcribe_audio: the result is success=false with the error
\* "Transcription failed: <message>", and no engine call follows it.
C7_ExceptionsCaught ==
    /\ ~escaped
    /\ Len(loadCalls) <= 1
    /\ Len(transcribeCalls) <= 1
    /\ exc /= None =>
          /\ Len(loadCalls) = 1
          /\ pc \in {"except", "print", "exit", "done"}
          /\ Returned =>
                IsFailure(result, <<"Transcription failed: ">> \o exc[1].msg)
    /\ (Returned /\ eresult /= None /\ "text" \notin DOMAIN eresult[1]) =>
          IsFailure(result, <<"Transcription failed: ", "'", "text", "'">>)
    /\ (Returned /\ loadCalls /= <<>> /\ loadCalls[1] \notin KnownModels) =>
          /\ exc /= None
          /\ transcribeCalls = <<>>

C7_Witness ==
    /\ Exited
    /\ eresult /= None
    /\ "text" \notin DOMAIN eresult[1]
    /\ exc /= None
    /\ Len(printed) = 1

\* C8: on a successful run model_used is the selector load_model was called
\* with, which is the second positional argument when given and "tiny"
\* otherwise.
C8_ModelUsed ==
    /\ \A i \in DOMAIN loadCalls :
          loadCalls[i] = IF Len(argv) > 2 THEN argv[3] ELSE <<"tiny">>
    /\ \A i \in DOMAIN printed :
          Succeeded(printed[i]) =>
              /\ Len(loadCalls) = 1
              /\ Val(printed[i], "model_used") = JStr(loadCalls[1])

C8_Witness ==
    /\ Len(printed) = 1
    /\ Succeeded(printed[1])
    /\ Len(argv) = 2
    /\ Val(printed[1], "model_used") = JStr(<<"tiny">>)

\* C9: on a successful run the output segments are the engine's segments in
\* the engine's order: same length, the i-th built from the engine's i-th
\* (its start, its end, its text stripped); empty when the engine's result
\* has no segments.
C9_SegmentsPreserved ==
    \A n \in DOMAIN printed :
        Succeeded(printed[n]) =>
            LET out == OutputSegments(printed[n])
                in == EngineSegmentsOf(eresult[1])
            IN  /\ Len(out) = Len(in)
                /\ "segments" \notin DOMAIN eresult[1] => out = <<>>
                /\ \A i \in DOMAIN out :
                      /\ Val(out[i], "start").v = Get(in[i], "start", 0)
                      /\ Val(out[i], "end").v = Get(in[i], "end", 0)
                      /\ IsStripOf(Val(out[i], "text").v,
                                   Get(in[i], "text", <<>>))

C9_Witness ==
    /\ Len(printed) = 1
    /\ Succeeded(printed[1])
    /\ Len(OutputSegments(printed[1])) = 2
    /\ OutputSegments(printed[1])[1] /= OutputSegments(printed[1])[2]
    /\ Val(OutputSegments(printed[1])[1], "text").v = <<"b">>

====
